---------------------------- MODULE Spec2Model ----------------------------
(***************************************************************************)
(* A model of compress_photos.py: compress_images(input_folder,            *)
(* output_folder, max_width, quality).  One run of the function is one     *)
(* behaviour: the output folder is created, the input folder is listed     *)
(* and filtered by extension, every selected file is decoded, flattened,   *)
(* resized, saved as JPEG and accounted inside a try/except, and a summary *)
(* is printed.  The file system, the decoder and the encoder are the       *)
(* environment: their results (image attributes, byte sizes, failures) are *)
(* chosen with \E at the step that asks for them.                          *)
(***************************************************************************)
EXTENDS Integers, Sequences, FiniteSets, TLC

(* ------------------------------ bounds -------------------------------- *)

\* Largest pixel width of a decoded image.
MaxWidth == 3

\* Largest pixel height of a decoded image.
MaxHeight == 2

\* Largest max_width argument tried; max_width is a positive integer.
MaxMaxWidth == 2

\* Largest byte size os.path.getsize reports.
MaxBytes == 2

(* ----------------------------- file names ----------------------------- *)

\* File names are sequences of one-character strings.
Dot == "."

jpgSuffix == <<".", "j", "p", "g">>

\* The names an input folder may hold: a lower-case and an upper-case
\* image extension on the same stem, a mixed-case image extension, and a
\* name that is no image.  Two of them pass the filter of line 28, so the
\* loop of a run has at most two files.
NameUniverse ==
    { <<"a", ".", "j", "p", "g">>,
      <<"a", ".", "P", "N", "G">>,
      <<"b", ".", "J", "p", "g">>,
      <<"d", ".", "t", "x", "t">> }

\* image_extensions, line 24.
image_extensions ==
    { <<".", "j", "p", "g">>, <<".", "j", "p", "e", "g">>, <<".", "p", "n", "g">>,
      <<".", "J", "P", "G">>, <<".", "J", "P", "E", "G">>, <<".", "P", "N", "G">> }

\* str.endswith(suffix).
EndsWith(s, suffix) ==
    /\ Len(suffix) <= Len(s)
    /\ SubSeq(s, Len(s) - Len(suffix) + 1, Len(s)) = suffix

\* f.endswith(image_extensions): the filter of line 28.
IsSelected(f) == \E e \in image_extensions : EndsWith(f, e)

\* Index of the last "." of s, 0 when there is none (str.rfind).
LastDot(s) ==
    LET dots == { k \in 1..Len(s) : s[k] = Dot }
    IN  IF dots = {} THEN 0 ELSE CHOOSE k \in dots : \A m \in dots : m <= k

\* os.path.splitext: the split is at the last dot, unless only dots
\* precede it (a leading-dot name has no extension).
SplitIndex(s) ==
    LET d == LastDot(s)
    IN  IF d > 0 /\ \E k \in 1..(d - 1) : s[k] # Dot THEN d ELSE Len(s) + 1

splitext(s) ==
    << SubSeq(s, 1, SplitIndex(s) - 1), SubSeq(s, SplitIndex(s), Len(s)) >>

\* output_filename, line 71.
OutputFilename(f) == splitext(f)[1] \o jpgSuffix

(* ------------------------------- images ------------------------------- *)

\* Pillow modes a decoded JPEG or PNG can have here: RGB, RGBA, LA
\* (luminance + alpha), P (palette), L (8-bit grey), I;16 (16-bit grey).
Modes == {"RGB", "RGBA", "LA", "P", "L", "I;16"}

\* Modes Pillow's JPEG writer accepts among those above.
JpegWritable == {"RGB", "L"}

NoImage == [width |-> 0, height |-> 0, mode |-> "none"]

\* NeedsFlatten with LA forgotten: the fault C4_FlattenedToRGB is tried
\* against.
NeedsFlattenSkipLA(mode) == mode \in {"RGBA", "P"}

\* The test of line 56.
NeedsFlatten(mode) == mode \in {"RGBA", "LA", "P"}

\* Lines 57-61: background is a white RGB canvas of img.size, the image
\* is pasted on it and img becomes the canvas.  Only the size and the
\* mode of an image are modelled, not its pixels: whether the paste used
\* the alpha band as its mask (line 60) does not show here.
Flatten(im) ==
    [width |-> im.width, height |-> im.height, mode |-> "RGB"]

\* NeedsResize without its test, so that narrow images are enlarged: the
\* fault C3_WidthAtMostMax is tried against.
NeedsResizeAlways(im, maxw) == TRUE

\* The test of line 64.
NeedsResize(im, maxw) == im.width > maxw

\* int(img.height * (max_width / img.width)), lines 65-66.  The quotient
\* is a float: when height * max_width is a multiple of width the product
\* may round just below the integer (49 * (1 / 49) does), and int() then
\* yields one less.  Both results are allowed wherever that can happen.
NewHeights(im, maxw) ==
    LET exact == (im.height * maxw) \div im.width
    IN  IF (im.height * maxw) % im.width = 0 /\ exact > 0
        THEN {exact, exact - 1}
        ELSE {exact}

\* img.resize((max_width, new_height), LANCZOS), line 67.  Pillow refuses
\* a size with a zero side ("height and width must be > 0").
ResizeRaises(maxw, nh) == maxw < 1 \/ nh < 1

Resized(im, maxw, nh) ==
    [width |-> maxw, height |-> nh, mode |-> im.mode]

(* ------------------------------- state -------------------------------- *)

VARIABLES
    inputDir,               \* the input folder: "ok", "missing" or "unlistable"
    listing,                \* the names the input folder holds
    max_width,              \* the max_width argument
    outDirExists,           \* whether the output folder exists
    outFiles,               \* the output folder: file name -> file written
    pc,                     \* the position in compress_images
    files,                  \* line 28
    i,                      \* the loop index of line 44 (1-based)
    total_original_size,    \* line 41
    total_compressed_size,  \* line 42
    opened,                 \* the image the with statement of line 50 holds
    img,                    \* the local img
    original_size,          \* line 52
    exc,                    \* the exception in flight, "" when none
    report,                 \* the per-file lines printed (lines 82-83, 86)
    notices                 \* the other lines printed (lines 30, 34, 37, 89-96)

vars == << inputDir, listing, max_width, outDirExists, outFiles, pc, files, i,
           total_original_size, total_compressed_size, opened, img,
           original_size, exc, report, notices >>

env == << inputDir, listing, max_width >>

locals == << opened, img, original_size >>

totals == << total_original_size, total_compressed_size >>

\* The injective sequences over S: the orders os.listdir may return S in.
Orders(S) ==
    { s \in [1..Cardinality(S) -> S] : \A a, b \in 1..Cardinality(S) : s[a] = s[b] => a = b }

\* The state when compress_images is called.  The output folder is absent
\* or empty.  Locals not yet assigned hold 0, NoImage or "": nothing reads
\* them before the code assigns them.
Init ==
    /\ inputDir \in {"ok", "missing", "unlistable"}
    /\ listing \in SUBSET NameUniverse
    /\ (inputDir # "ok" => listing = {})
    /\ max_width \in 1..MaxMaxWidth
    /\ outDirExists \in BOOLEAN
    /\ outFiles = << >>
    /\ pc = "makedirs"
    /\ files = << >>
    /\ i = 0
    /\ total_original_size = 0
    /\ total_compressed_size = 0
    /\ opened = NoImage
    /\ img = NoImage
    /\ original_size = 0
    /\ exc = ""
    /\ report = << >>
    /\ notices = << >>

(* ------------------------------ actions ------------------------------- *)

\* Lines 17-21: os.makedirs(output_folder, exist_ok=True).
MakeDirs ==
    /\ pc = "makedirs"
    /\ outDirExists' = TRUE
    /\ pc' = "listdir"
    /\ UNCHANGED << env, outFiles, files, i, totals, locals, exc, report, notices >>

\* Lines 27-42: os.listdir and the extension filter.  FileNotFoundError is
\* caught (line 29); any other OSError of os.listdir leaves the function.
ListDir ==
    /\ pc = "listdir"
    /\ \/ /\ inputDir = "missing"
          /\ notices' = Append(notices, "folder not found")
          /\ pc' = "returned"
          /\ UNCHANGED << files, i, totals, exc >>
       \/ /\ inputDir = "unlistable"
          /\ exc' = "OSError"
          /\ pc' = "raised"
          /\ UNCHANGED << files, i, totals, notices >>
       \/ /\ inputDir = "ok"
          /\ \E order \in Orders({ f \in listing : IsSelected(f) }) :
                /\ files' = order
                /\ IF order = << >>
                   THEN /\ notices' = Append(notices, "no image files found")
                        /\ pc' = "returned"
                        /\ UNCHANGED << i, totals >>
                   ELSE /\ notices' = Append(notices, "compressing")
                        /\ total_original_size' = 0
                        /\ total_compressed_size' = 0
                        /\ i' = 1
                        /\ pc' = "open"
          /\ UNCHANGED exc
    /\ UNCHANGED << env, outDirExists, outFiles, locals, report >>

\* The exceptions the steps of the loop body raise; all of them derive
\* from Exception.
Exceptions == {"UnidentifiedImageError", "OSError", "ValueError", "ZeroDivisionError"}

\* IsCaught for a clause "except OSError": the fault
\* C2_EveryFileAttemptedInOrder is tried against.
IsCaughtOnlyOSError(e) == e \in {"UnidentifiedImageError", "OSError"}

\* except Exception, line 85.
IsCaught(e) == e \in Exceptions

\* The file the loop is at, and the path line 72 computes for it.
filename == files[i]

output_path == OutputFilename(filename)

\* Leaving the with block of line 50 by an exception e: the image is
\* closed and control reaches the except clause.
Raise(e) ==
    /\ exc' = e
    /\ pc' = "except"
    /\ opened' = NoImage
    /\ img' = NoImage
    /\ original_size' = 0

\* The next iteration of the for loop of line 44, or the summary after it.
NextFile ==
    /\ i' = i + 1
    /\ pc' = IF i < Len(files) THEN "open" ELSE "summary"

\* Line 50: Image.open(input_path) fails on a file that is no image, or
\* yields the decoded image.
OpenImage ==
    /\ pc = "open"
    /\ \/ /\ Raise("UnidentifiedImageError")
       \/ \E w \in 1..MaxWidth, h \in 1..MaxHeight, m \in Modes :
             /\ opened' = [width |-> w, height |-> h, mode |-> m]
             /\ img' = opened'
             /\ pc' = "getsize"
             /\ UNCHANGED << original_size, exc >>
    /\ UNCHANGED << env, outDirExists, outFiles, files, i, totals, report, notices >>

\* Lines 52-53: the original size is read and added to the running total.
\* The size is that of the path at this moment: it is 0 when the file was
\* replaced by an empty one after Image.open read it.
ReadOriginalSize ==
    /\ pc = "getsize"
    /\ \/ /\ Raise("OSError")
          /\ UNCHANGED totals
       \/ \E n \in 0..MaxBytes :
             /\ original_size' = n
             /\ total_original_size' = total_original_size + n
             /\ pc' = "normalize"
             /\ UNCHANGED << total_compressed_size, opened, img, exc >>
    /\ UNCHANGED << env, outDirExists, outFiles, files, i, report, notices >>

\* Lines 56-61: an RGBA, LA or P image is pasted on a white RGB canvas.
\* convert, split and paste load the pixel data, which may fail.
Normalize ==
    /\ pc = "normalize"
    /\ IF NeedsFlatten(img.mode)
       THEN \/ /\ img' = Flatten(img)
               /\ pc' = "resize"
               /\ UNCHANGED << opened, original_size, exc >>
            \/ Raise("OSError")
       ELSE /\ pc' = "resize"
            /\ UNCHANGED << opened, img, original_size, exc >>
    /\ UNCHANGED << env, outDirExists, outFiles, files, i, totals, report, notices >>

\* Lines 64-67: an image wider than max_width is resized to max_width.
Resize ==
    /\ pc = "resize"
    /\ IF NeedsResize(img, max_width)
       THEN \E nh \in NewHeights(img, max_width) :
               IF ResizeRaises(max_width, nh)
               THEN Raise("ValueError")
               ELSE \/ /\ img' = Resized(img, max_width, nh)
                       /\ pc' = "save"
                       /\ UNCHANGED << opened, original_size, exc >>
                    \/ Raise("OSError")
       ELSE /\ pc' = "save"
            /\ UNCHANGED << opened, img, original_size, exc >>
    /\ UNCHANGED << env, outDirExists, outFiles, files, i, totals, report, notices >>

\* outFiles with name bound to file.
Put(name, file) ==
    [ n \in DOMAIN outFiles \cup {name} |-> IF n = name THEN file ELSE outFiles[n] ]

\* Lines 71-74: img.save(output_path, 'JPEG', ...).  Pillow opens the path
\* for writing, which truncates a file already there, and encodes into it.
\* When the call fails, a file it created itself is removed again by
\* Pillow (every version that has Image.Resampling does so), and a file
\* that was there before is left untouched (the open failed) or truncated.
\* Nothing in compress_images cleans up.  Of the image a file holds, its
\* width is kept; src is the input it was written for.
Save ==
    /\ pc = "save"
    /\ \/ /\ img.mode \in JpegWritable
          /\ \E n \in 1..MaxBytes :
                outFiles' = Put(output_path,
                                [state |-> "complete", width |-> img.width,
                                 size |-> n, src |-> filename])
          /\ pc' = "account"
          /\ UNCHANGED << locals, exc >>
       \/ /\ Raise("OSError")
          /\ \/ UNCHANGED outFiles
             \/ /\ output_path \in DOMAIN outFiles
                /\ outFiles' = Put(output_path,
                                   [state |-> "partial", width |-> 0,
                                    size |-> 0, src |-> filename])
    /\ UNCHANGED << env, outDirExists, files, i, totals, report, notices >>

\* Lines 77-83: the compressed size is read and added to its total, the
\* reduction is computed (a division by original_size) and the line of
\* the file is printed.
Account ==
    /\ pc = "account"
    /\ \/ /\ Raise("OSError")
          /\ UNCHANGED << totals, report, i >>
       \/ LET compressed_size == outFiles[output_path].size
          IN  /\ total_compressed_size' = total_compressed_size + compressed_size
              /\ UNCHANGED total_original_size
              /\ IF original_size = 0
                 THEN /\ Raise("ZeroDivisionError")
                      /\ UNCHANGED << report, i >>
                 ELSE /\ report' = Append(report,
                              [index |-> i, filename |-> filename, outcome |-> "ok",
                               original_size |-> original_size,
                               compressed_size |-> compressed_size,
                               message |-> ""])
                      /\ NextFile
                      /\ opened' = NoImage
                      /\ img' = NoImage
                      /\ original_size' = 0
                      /\ UNCHANGED exc
    /\ UNCHANGED << env, outDirExists, outFiles, files, notices >>

\* Lines 85-86: the except clause prints the error line of the file; the
\* loop goes on.  An exception the clause does not name leaves the
\* function.  The error line prints no size: its sizes are 0 here.
HandleException ==
    /\ pc = "except"
    /\ IF IsCaught(exc)
       THEN /\ report' = Append(report,
                    [index |-> i, filename |-> filename, outcome |-> "error",
                     original_size |-> 0, compressed_size |-> 0,
                     message |-> exc])
            /\ exc' = ""
            /\ NextFile
       ELSE /\ pc' = "raised"
            /\ UNCHANGED << report, exc, i >>
    /\ UNCHANGED << env, outDirExists, outFiles, files, totals, locals, notices >>

\* Lines 89-96: the summary.  Line 95 divides by total_original_size.
Summary ==
    /\ pc = "summary"
    /\ IF total_original_size = 0
       THEN /\ notices' = Append(notices, "totals")
            /\ exc' = "ZeroDivisionError"
            /\ pc' = "raised"
       ELSE /\ notices' = Append(Append(notices, "totals"), "overall reduction")
            /\ pc' = "returned"
            /\ UNCHANGED exc
    /\ UNCHANGED << env, outDirExists, outFiles, files, i, totals, locals, report >>

Next ==
    \/ MakeDirs
    \/ ListDir
    \/ OpenImage
    \/ ReadOriginalSize
    \/ Normalize
    \/ Resize
    \/ Save
    \/ Account
    \/ HandleException
    \/ Summary

Spec == Init /\ [][Next]_vars

(* ------------------------------- claims ------------------------------- *)

\* The lines of report that report a success.
Successes == { k \in 1..Len(report) : report[k].outcome = "ok" }

RECURSIVE SumOriginal(_)
SumOriginal(K) ==
    IF K = {} THEN 0
    ELSE LET k == CHOOSE x \in K : TRUE
         IN  report[k].original_size + SumOriginal(K \ {k})

RECURSIVE SumCompressed(_)
SumCompressed(K) ==
    IF K = {} THEN 0
    ELSE LET k == CHOOSE x \in K : TRUE
         IN  report[k].compressed_size + SumCompressed(K \ {k})

\* The loop is between two files, or past the last one.
BetweenFiles == files # << >> /\ pc \in {"open", "summary", "returned", "raised"}

\* The loop has ended.
LoopDone == files # << >> /\ pc \in {"summary", "returned", "raised"}

\* C1: whenever the loop is between two files or has ended, the two
\* running totals are the sums of the original and of the compressed sizes
\* over the files reported as successes; a file reported as an error adds
\* nothing to either.
C1_TotalsOverSuccesses ==
    BetweenFiles =>
        /\ total_original_size = SumOriginal(Successes)
        /\ total_compressed_size = SumCompressed(Successes)

\* C2: the loop attempts every enumerated file once, in enumeration order:
\* while it runs at file i, the lines reported are those of files 1..i-1,
\* each either a success or an error line; an exception of a step never
\* leaves the function from inside the loop; when the loop has ended there
\* is one line per enumerated file.
C2_EveryFileAttemptedInOrder ==
    /\ \A k \in 1..Len(report) :
          /\ k <= Len(files)
          /\ report[k].filename = files[k]
          /\ report[k].index = k
    /\ pc \in {"open", "getsize", "normalize", "resize", "save", "account", "except"} =>
          /\ i \in 1..Len(files)
          /\ Len(report) = i - 1
    /\ LoopDone => Len(report) = Len(files)

\* C2's case: the first of two files failed and the second was processed
\* and succeeded.
C2_Witness ==
    /\ pc = "summary"
    /\ Len(files) = 2
    /\ report[1].outcome = "error"
    /\ report[2].outcome = "ok"

\* C3: the image just written for the current file is no wider than
\* max_width (which is positive); it has the width of the decoded image
\* when that is at most max_width, and width max_width otherwise.  Every
\* complete file of the output folder is no wider than max_width.
C3_WidthAtMostMax ==
    /\ \A n \in DOMAIN outFiles :
          outFiles[n].state = "complete" => outFiles[n].width <= max_width
    /\ pc = "account" =>
          LET written == outFiles[output_path]
          IN  /\ written.state = "complete"
              /\ written.src = filename
              /\ (opened.width <= max_width) => (written.width = opened.width)
              /\ (opened.width > max_width) => (written.width = max_width)

\* C3's case: an image wider than max_width was written.
C3_Witness ==
    /\ pc = "account"
    /\ opened.width > max_width
    /\ outFiles[output_path].width = max_width

\* C4: after the colour step (lines 56-61), up to the call of the encoder,
\* the image is in mode RGB when it was decoded as RGBA, LA or P, and in
\* the mode it was decoded in otherwise.
C4_FlattenedToRGB ==
    pc \in {"resize", "save"} =>
        /\ opened.mode \in {"RGBA", "LA", "P"} => img.mode = "RGB"
        /\ opened.mode \notin {"RGBA", "LA", "P"} => img.mode = opened.mode

\* C4's case: an LA image reaches the encoder.
C4_Witness ==
    /\ pc = "save"
    /\ opened.mode = "LA"
    /\ img.mode = "RGB"

\* C5: after a run into an empty output folder, the number of files in the
\* output folder is the number of inputs reported as successes.  Stated
\* for the runs in which every enumerated input is reported as a success.
C5_OneOutputPerSuccess ==
    (LoopDone /\ Successes = 1..Len(files)) =>
        /\ Cardinality(DOMAIN outFiles) = Cardinality(Successes)
        /\ \A k \in Successes : OutputFilename(report[k].filename) \in DOMAIN outFiles

\* C6: when every enumerated file failed, the summary does not raise.
C6_SummaryDoesNotRaise ==
    (LoopDone /\ Successes = {}) => pc # "raised"

\* C7: the reduction of a file whose original size is 0 raises no division
\* error: no file is reported as an error because of a division by zero.
C7_ZeroSizeIsNoError ==
    /\ pc = "except" => exc # "ZeroDivisionError"
    /\ \A k \in 1..Len(report) : report[k].message # "ZeroDivisionError"

\* C8: when the input folder is missing or cannot be listed, no step of
\* compress_images creates the output folder or a file, processes a file,
\* or raises.
C8_MissingInputLeavesNoTrace ==
    [][ inputDir # "ok" =>
            /\ outDirExists' = outDirExists
            /\ outFiles' = outFiles
            /\ report' = report
            /\ pc' # "raised" ]_vars

\* str.lower on the letters the names use.
Lower(c) ==
    CASE c = "J" -> "j" [] c = "P" -> "p" [] c = "G" -> "g"
      [] c = "N" -> "n" [] c = "E" -> "e" [] OTHER -> c

LowerSeq(s) == [ k \in 1..Len(s) |-> Lower(s[k]) ]

\* C9: once the folder is listed, a name of the folder is among files
\* exactly when its extension, lower-cased, is .jpg, .jpeg or .png.
C9_CaseInsensitiveFilter ==
    (inputDir = "ok" /\ pc \notin {"makedirs", "listdir"}) =>
        \A f \in listing :
            (\E k \in 1..Len(files) : files[k] = f)
                <=> LowerSeq(splitext(f)[2]) \in
                        { <<".", "j", "p", "g">>, <<".", "j", "p", "e", "g">>,
                          <<".", "p", "n", "g">> }

\* C10: once the error of a file is recorded and the loop has moved on, the
\* output folder holds no truncated file.
C10_NoPartialOutput ==
    pc # "except" => \A n \in DOMAIN outFiles : outFiles[n].state # "partial"

=============================================================================
